---- MODULE Spec2Model ----
(***************************************************************************)
(* The article generation pipeline of blog-generator: the POST handler of  *)
(* src/app/api/generate/route.ts with assembleArticle and the p-limit      *)
(* limiter of its image stage.                                             *)
(*                                                                         *)
(* One request is one run of POST.  POST is an async function: between two *)
(* awaits it runs to completion, so every action below is one continuation *)
(* of POST (from the settling of the promise it awaits up to the next      *)
(* await), and pc names the await at which POST is suspended.              *)
(* Texts are sequences of one-character strings, so that split, join and   *)
(* trim are computed and not assumed.                                      *)
(***************************************************************************)
EXTENDS Integers, Sequences, FiniteSets, TLC

VARIABLES
    pc,              \* the await POST is suspended at, or "Done" / "Failed"
    input,           \* the request body as received
    affiliateLinks,  \* the affiliateLinks of the instructions sent to the model
    productData,     \* result of scrapeProductSnapshot
    content,         \* the settled chat completion, before it is parsed
    article,         \* the GeneratedArticle object (parsed, then mutated)
    checks,          \* results of the spellcheck invocations, by name
    queue,           \* p-limit: the prompts (indices) waiting for a slot
    activeCount,     \* p-limit: number of running render calls
    renders,         \* per image prompt: state of its render call
    allImages,       \* state of the Promise.all over the render calls
    generatedImages, \* the local generatedImages of POST
    started,         \* per collaborator call: how often it was started
    renderStarted,   \* per image prompt: how often a render call was started
    response,        \* the NextResponse returned, or NoResponse
    page             \* the Home component: its state and its submit handler

requestVars == <<pc, input, affiliateLinks, productData, content, article, checks, queue,
          activeCount, renders, allImages, generatedImages, started,
          renderStarted, response>>

vars == <<requestVars, page>>

----------------------------------------------------------------------------
\* Bounds of the model

MaxPrompts == 4      \* image prompts of a draft
MaxSections == 1     \* sections of a draft
MaxFaqs == 1         \* FAQs of a draft
MaxFlawed == 1       \* fields of the model output that are absent or ill-shaped
MaxDraftSize == 4    \* texts in the lists plus flawed fields of one model output
MaxTextLen == 3      \* length of a corrected FAQ string
MaxParams == 2       \* query parameters of a base URL
MaxRequests == 2     \* requests processed at the same time
MaxSubmissions == 8  \* submissions of the form

\* pLimit(2)
concurrency == 2

----------------------------------------------------------------------------
\* Texts

NL == "\n"
SP == " "

\* String.prototype.split("\n"): the pieces between the newlines; always at
\* least one piece.
RECURSIVE SplitFrom(_, _, _)
SplitFrom(s, i, cur) ==
    IF i > Len(s) THEN <<cur>>
    ELSE IF s[i] = NL THEN <<cur>> \o SplitFrom(s, i + 1, <<>>)
    ELSE SplitFrom(s, i + 1, Append(cur, s[i]))

split(s) == SplitFrom(s, 1, <<>>)

\* Array.prototype.join("\n")
RECURSIVE join(_)
join(parts) ==
    IF Len(parts) = 0 THEN <<>>
    ELSE IF Len(parts) = 1 THEN parts[1]
    ELSE parts[1] \o <<NL>> \o join(Tail(parts))

IsSpace(c) == c \in {SP, NL}

RECURSIVE trimStart(_)
trimStart(s) ==
    IF Len(s) > 0 /\ IsSpace(s[1]) THEN trimStart(Tail(s)) ELSE s

RECURSIVE trimEnd(_)
trimEnd(s) ==
    IF Len(s) > 0 /\ IsSpace(s[Len(s)])
    THEN trimEnd(SubSeq(s, 1, Len(s) - 1))
    ELSE s

\* String.prototype.trim()
trim(s) == trimEnd(trimStart(s))

\* All texts over an alphabet up to a length
RECURSIVE TextsUpTo(_, _)
TextsUpTo(alphabet, n) ==
    IF n = 0 THEN {<<>>}
    ELSE LET shorter == TextsUpTo(alphabet, n - 1)
         IN  shorter \cup {Append(t, c) : t \in shorter, c \in alphabet}

----------------------------------------------------------------------------
\* JSON values of the model output, tagged by their JavaScript type

Undefined == [t |-> "undefined", v |-> <<>>]
Null == [t |-> "null", v |-> <<>>]
Num == [t |-> "number", v |-> <<>>]
Str(s) == [t |-> "string", v |-> s]
Arr(a) == [t |-> "array", v |-> a]

TextFields == {"title", "slug", "metaDescription", "excerpt", "callToAction"}
ListFields == {"sections", "faqs", "affiliateBlocks", "imagePrompts"}
Fields == TextFields \cup ListFields

\* What a well-formed model output holds
SampleText(f) == Str(<<f>>)
SampleSection(i) ==
    [heading |-> "heading" \o ToString(i), body |-> "body" \o ToString(i)]
SampleFaq(i) == [heading |-> <<"H", ToString(i)>>, body |-> <<"B", ToString(i)>>]
SampleBlock(i) == [platform |-> "amazon", text |-> "text", link |-> "link"]
SamplePrompt(i) == "prompt" \o ToString(i)

SampleList(f, n) ==
    CASE f = "sections" -> [i \in 1..n |-> SampleSection(i)]
      [] f = "faqs" -> [i \in 1..n |-> SampleFaq(i)]
      [] f = "affiliateBlocks" -> <<SampleBlock(1)>>
      [] f = "imagePrompts" -> [i \in 1..n |-> SamplePrompt(i)]

\* A field that is absent, null, or of the wrong shape (a number where a
\* string is expected, a string where an array is expected)
Flaws == {"absent", "null", "wrong"}

FlawedValue(f, flaw) ==
    CASE flaw = "absent" -> Undefined
      [] flaw = "null" -> Null
      [] flaw = "wrong" -> IF f \in TextFields THEN Num ELSE Str(<<"x">>)

\* The parsed model output with the fields of `flawed` flawed and the lists
\* of sections, FAQs and image prompts of the given sizes (a well-formed
\* list of affiliate blocks holds one block)
RawDraft(flawed, size) ==
    [f \in Fields |->
        IF f \in DOMAIN flawed THEN FlawedValue(f, flawed[f])
        ELSE IF f \in TextFields THEN SampleText(f)
        ELSE Arr(SampleList(f, size[f]))]

ListSizes ==
    {size \in [ListFields -> 0..MaxPrompts] :
        /\ size["sections"] <= MaxSections
        /\ size["faqs"] <= MaxFaqs
        /\ size["affiliateBlocks"] = 0}

FlawedSets == {F \in SUBSET Fields : Cardinality(F) <= MaxFlawed}

\* A section and a FAQ hold two texts each, an image prompt one
SizeOf(F, size) ==
    Cardinality(F) + (size["sections"] + size["faqs"]) * 2
        + size["imagePrompts"]

RawDrafts ==
    UNION {{RawDraft(flawed, size) : flawed \in [F -> Flaws]} :
            <<F, size>> \in {fs \in FlawedSets \X ListSizes :
                /\ SizeOf(fs[1], fs[2]) <= MaxDraftSize
                /\ \A f \in fs[1] \cap ListFields : fs[2][f] = 0}}

\* What the chat completion settles with
NoContent ==
    [kind |-> "none", json |-> RawDraft(<<>>, [f \in ListFields |-> 0])]

Contents ==
    {[kind |-> k, json |-> NoContent.json] :
        k \in {"missing", "unparseable", "nonobject"}}
    \cup {[kind |-> "object", json |-> raw] : raw \in RawDrafts}

\* route.ts 104-111: Array.isArray(x) ? x : []
arrayOrEmpty(x) == IF x.t = "array" THEN x.v ELSE <<>>

\* route.ts 112-116: x ?? ""
orEmptyString(x) == IF x.t \in {"undefined", "null"} THEN Str(<<>>) ELSE x

\* route.ts 104-116
normalize(parsed) ==
    [title |-> orEmptyString(parsed["title"]),
     slug |-> orEmptyString(parsed["slug"]),
     metaDescription |-> orEmptyString(parsed["metaDescription"]),
     excerpt |-> orEmptyString(parsed["excerpt"]),
     callToAction |-> orEmptyString(parsed["callToAction"]),
     sections |-> arrayOrEmpty(parsed["sections"]),
     faqs |-> arrayOrEmpty(parsed["faqs"]),
     affiliateBlocks |-> arrayOrEmpty(parsed["affiliateBlocks"]),
     imagePrompts |-> arrayOrEmpty(parsed["imagePrompts"])]

\* route.ts 94: the JSON text used when the completion has no content
defaultContent ==
    [f \in Fields |-> IF f \in TextFields THEN Str(<<>>) ELSE Arr(<<>>)]

EmptyArticle == normalize(defaultContent)

----------------------------------------------------------------------------
\* The request

\* A URL string, by what `new URL` parses it into: the part before the
\* query and the name-value pairs of the query, in order.  The empty string
\* does not parse.
Url(href, query) == [href |-> href, query |-> query]
NoUrl == Url("", <<>>)
Param(name, value) == [name |-> name, value |-> value]

\* route.ts 16, 27: z.string().url()
isUrl(u) == u.href # ""

\* An entry of the affiliate configuration: an object holding baseUrl and tag
\* (the form of the page sends "" for the field the user left empty), or
\* null
Entry(baseUrl, tag) == [t |-> "object", baseUrl |-> baseUrl, tag |-> tag]
NullEntry == [t |-> "null", baseUrl |-> NoUrl, tag |-> ""]

SampleProductUrl == "https://example.com/p"
SampleEntry == Entry(Url("https://amzn.to/x", <<>>), "tag123")
SampleConfig == [platform \in {"amazon"} |-> SampleEntry]

\* A configuration with a complete entry and an entry that lacks a field,
\* or both
PartialConfigs ==
    {[platform \in {"amazon", "shopee"} |->
        IF platform = "amazon" THEN SampleEntry ELSE partial] :
            partial \in {Entry(Url("https://shope.ee/y", <<>>), ""),
                         Entry(NoUrl, "tag456"),
                         NullEntry}}

\* Base URLs that already hold query parameters, also the two that
\* buildAffiliateLinks sets
BaseParams ==
    {Param("ref", "old"), Param("target", "old"), Param("utm", "x")}

CompleteEntries ==
    {Entry(Url("https://amzn.to/x", query), "tag123") :
        query \in TextsUpTo(BaseParams, MaxParams)}

\* The configurations requestSchema accepts: any of the platforms, each
\* with a complete entry
CompleteConfigs ==
    UNION {[platforms -> CompleteEntries] :
            platforms \in SUBSET {"amazon", "shopee"}}

\* The body of the request: not JSON at all, JSON with a field other than
\* affiliateConfig that requestSchema rejects, or JSON whose other fields
\* requestSchema accepts (additionalNotes is optional and may be empty)
GenerationRequest(kind, includeImages, notes, affiliateConfig) ==
    [kind |-> kind,
     productUrl |-> SampleProductUrl,
     includeImages |-> includeImages,
     targetRegion |-> "Brazil",
     seoKeywords |-> <<"melhor preco", "review completo">>,
     additionalNotes |-> notes,
     affiliateConfig |-> affiliateConfig]

NotesValues == {Undefined, Str(""), Str("notes")}

\* The notes take each of their values on requests without images, which
\* reach the response the same way whatever the notes are
Inputs ==
    {GenerationRequest(k, FALSE, Undefined, SampleConfig) :
        k \in {"malformed", "invalid"}}
    \cup {GenerationRequest("valid", TRUE, Str("notes"), SampleConfig)}
    \cup {GenerationRequest("valid", FALSE, notes, SampleConfig) :
            notes \in NotesValues}
    \cup {GenerationRequest("valid", FALSE, Undefined, config) :
            config \in PartialConfigs}

\* route.ts 24-32: every entry of affiliateConfig is an object whose baseUrl
\* is a URL and whose tag has at least one character
affiliateConfigSchema(affiliateConfig) ==
    \A platform \in DOMAIN affiliateConfig :
        LET config == affiliateConfig[platform]
        IN  /\ config.t = "object"
            /\ isUrl(config.baseUrl)
            /\ config.tag # ""

\* A schema that takes affiliateConfig as any record
requestSchemaAnyConfig(body) == body.kind = "valid"

\* route.ts 15-34, 123: requestSchema.parse throws a ZodError unless the
\* body has the GenerationRequest shape
requestSchema(body) ==
    body.kind = "valid" /\ affiliateConfigSchema(body.affiliateConfig)

\* url.searchParams.set(name, value): the first pair named `name` takes the
\* value and the other pairs of that name are removed; without such a pair
\* one is appended
searchParamsAppend(query, name, value) == Append(query, Param(name, value))

searchParamsSet(query, name, value) ==
    LET named == {k \in DOMAIN query : query[k].name = name}
    IN  IF named = {} THEN Append(query, Param(name, value))
        ELSE LET first == CHOOSE k \in named : \A j \in named : k <= j
                 keep(param) == param.name # name
             IN  SubSeq(query, 1, first - 1) \o <<Param(name, value)>>
                    \o SelectSeq(SubSeq(query, first + 1, Len(query)), keep)

NoLinks == <<>>

\* route.ts 36-49: one link per entry that is not falsy; url.toString()
\* serializes the pairs of the query in their order
buildAffiliateLinks(affiliateConfig, productUrl) ==
    [platform \in {p \in DOMAIN affiliateConfig :
                        affiliateConfig[p].t # "null"} |->
        LET config == affiliateConfig[platform]
            url == config.baseUrl
            withRef == searchParamsSet(url.query, "ref", config.tag)
        IN  Url(url.href, searchParamsSet(withRef, "target", productUrl))]

----------------------------------------------------------------------------
\* The collaborators.  Each call either rejects or settles with a value of
\* the result type; the values are drawn from the sets below.

CallNames ==
    {"product", "draft", "sections", "faqs", "title", "meta", "excerpt", "cta"}

SpellNames == {"sections", "faqs", "title", "meta", "excerpt", "cta"}

NoProduct == "none"
Products == {"snapshot"}

\* spellcheckSections on n section bodies: any number of corrected blocks
SectionResults(n) ==
    {[corrected |-> [i \in 1..k |-> "corrected body" \o ToString(i)],
      adjustments |-> <<"sections:1", "sections:2">>] : k \in 0..(n + 1)}

FaqTexts == TextsUpTo({"a", NL}, MaxTextLen)

SampleCorrectedFaq == <<"a", NL, "a">>

\* spellcheckSections on n serialized FAQs: n corrected strings of which one
\* is any text and the others are the sample, or one string fewer, or one
\* more
FaqResults(n) ==
    LET full == {c \in [1..n -> FaqTexts] :
                    Cardinality({i \in 1..n : c[i] # SampleCorrectedFaq}) <= 1}
        lists == full
                   \cup {SubSeq(c, 1, n - 1) : c \in full}
                   \cup {[i \in 1..(n + 1) |-> SampleCorrectedFaq]}
    IN  {[corrected |-> c, adjustments |-> <<"faqs:1">>] : c \in lists}

\* runSpellcheck on one text
TextResults(name) ==
    {[corrected |-> <<SP, name, SP>>, adjustments |-> <<name \o ":1">>]}

NoCheck == [corrected |-> <<>>, adjustments |-> <<>>]

\* generateNanoBananaImages([prompt]).then(res => res[0]): the call rejects,
\* or settles with one image, or settles with an empty list (res[0] is
\* undefined)
RenderOutcomes == {"ok", "empty", "rejected"}

NoImage == [defined |-> FALSE, imageUrl |-> "", prompt |-> ""]
Image(prompt) == [defined |-> TRUE, imageUrl |-> "url:" \o prompt, prompt |-> prompt]

----------------------------------------------------------------------------
\* The page (part_000): the state of Home and the position of handleSubmit

\* part_000 51-53: loading, error and result as first rendered; no
\* submission under way
NoFetch == [ok |-> FALSE, parses |-> FALSE, error |-> Undefined, data |-> "none"]

NoPage ==
    [loading |-> FALSE, error |-> Null, result |-> Null, at |-> "idle",
     fetched |-> NoFetch, submissions |-> 0]

----------------------------------------------------------------------------
\* Responses

NoResponse == [status |-> 0, body |-> <<>>]

\* The error value of an error response: the message of the Error thrown,
\* or the flattened issues of a ZodError
Message(m) == [t |-> "string", v |-> m]
Flattened == [t |-> "object", v |-> "formErrors, fieldErrors"]

\* route.ts 221-232: the catch clause of POST
errorResponse(error) == [status |-> 400, body |-> [error |-> error]]

\* route.ts 160: seoKeywords.join(", ")
RECURSIVE joinKeywords(_)
joinKeywords(keywords) ==
    IF Len(keywords) = 0 THEN ""
    ELSE IF Len(keywords) = 1 THEN keywords[1]
    ELSE keywords[1] \o ", " \o joinKeywords(Tail(keywords))

\* The notes pushed whenever the request holds them, also when empty
geoHighlightsDefinedNotes(in) ==
    <<"Optimized for " \o in.targetRegion \o " audience",
      "Keywords: " \o joinKeywords(in.seoKeywords)>>
        \o (IF in.additionalNotes.t = "string"
            THEN <<in.additionalNotes.v>> ELSE <<>>)

\* route.ts 158-163: the notes are pushed when they are truthy (a non-empty
\* string)
geoHighlights(in) ==
    <<"Optimized for " \o in.targetRegion \o " audience",
      "Keywords: " \o joinKeywords(in.seoKeywords)>>
        \o (IF in.additionalNotes.t = "string" /\ in.additionalNotes.v # ""
            THEN <<in.additionalNotes.v>> ELSE <<>>)

\* The adjustments of the FAQs after those of the four texts
spellingAdjustmentsFaqsLast(ch) ==
    ch["sections"].adjustments \o ch["title"].adjustments
        \o ch["meta"].adjustments \o ch["excerpt"].adjustments
        \o ch["cta"].adjustments \o ch["faqs"].adjustments

\* route.ts 208-215
spellingAdjustments(ch) ==
    ch["sections"].adjustments \o ch["faqs"].adjustments
        \o ch["title"].adjustments \o ch["meta"].adjustments
        \o ch["excerpt"].adjustments \o ch["cta"].adjustments

\* route.ts 203-220: JSON serialization drops a field that is undefined
responsePayload(in, product, art, ch, images) ==
    LET base == [product |-> product,
                 article |-> art,
                 spellingAdjustments |-> spellingAdjustments(ch),
                 geoHighlights |-> geoHighlights(in)]
    IN  [status |-> 200,
         body |-> IF Len(images) # 0
                  THEN [product |-> base.product,
                        article |-> base.article,
                        spellingAdjustments |-> base.spellingAdjustments,
                        geoHighlights |-> base.geoHighlights,
                        nanoBananaImages |-> images]
                  ELSE base]

----------------------------------------------------------------------------
\* The corrections of POST (route.ts 144-156)

\* route.ts 144-147
correctSection(section, corrected, index) ==
    [section EXCEPT !.body =
        IF index <= Len(corrected) THEN corrected[index] ELSE section.body]

\* A split that keeps only the first two lines: [heading, body] = split
correctFaqTwoLines(faq, correctedList, index) ==
    LET corrected == IF index <= Len(correctedList)
                     THEN correctedList[index] ELSE <<>>
        parts == split(corrected)
        heading == Head(parts)
        body == IF Len(parts) > 1 THEN parts[2] ELSE <<>>
    IN  [heading |-> IF Len(heading) # 0 THEN heading ELSE faq.heading,
         body |-> IF Len(body) # 0 THEN body ELSE faq.body]

\* route.ts 150-155
correctFaq(faq, correctedList, index) ==
    LET corrected == IF index <= Len(correctedList)
                     THEN correctedList[index] ELSE <<>>
        parts == split(corrected)
        heading == Head(parts)
        bodyParts == Tail(parts)
    IN  [heading |-> IF Len(heading) # 0 THEN heading ELSE faq.heading,
         body |-> IF Len(join(bodyParts)) # 0
                  THEN join(bodyParts) ELSE faq.body]

\* A map over the corrected blocks instead of the blocks of the article
applyCorrectionsByCorrected(art, ch) ==
    LET shorter(a, b) == IF Len(a) < Len(b) THEN Len(a) ELSE Len(b)
    IN  [art EXCEPT
            !.sections =
                [i \in 1..shorter(art.sections, ch["sections"].corrected) |->
                    correctSection(art.sections[i],
                                   ch["sections"].corrected, i)],
            !.faqs =
                [i \in 1..shorter(art.faqs, ch["faqs"].corrected) |->
                    correctFaq(art.faqs[i], ch["faqs"].corrected, i)]]

\* Corrections that also point each affiliate block at the link built for
\* its platform
applyCorrectionsRelinking(art, ch) ==
    [art EXCEPT
        !.sections = [i \in 1..Len(art.sections) |->
            correctSection(art.sections[i], ch["sections"].corrected, i)],
        !.faqs = [i \in 1..Len(art.faqs) |->
            correctFaq(art.faqs[i], ch["faqs"].corrected, i)],
        !.affiliateBlocks = [i \in 1..Len(art.affiliateBlocks) |->
            LET block == art.affiliateBlocks[i]
            IN  IF block.platform \in DOMAIN affiliateLinks
                THEN [block EXCEPT
                        !.link = affiliateLinks[block.platform].href]
                ELSE block]]

\* route.ts 144-156
applyCorrections(art, ch) ==
    [art EXCEPT
        !.sections = [i \in 1..Len(art.sections) |->
            correctSection(art.sections[i], ch["sections"].corrected, i)],
        !.faqs = [i \in 1..Len(art.faqs) |->
            correctFaq(art.faqs[i], ch["faqs"].corrected, i)]]

----------------------------------------------------------------------------
\* The limiter of the image stage (route.ts 168-176, p-limit)

limiterVars == <<queue, activeCount, renders, allImages, renderStarted>>

\* A limiter that never makes a call wait
hasSlotAlways(active) == TRUE

\* p-limit starts a queued call only while fewer than `concurrency` run
hasSlot(active) == active < concurrency

\* p-limit: start queued calls, in order, while there is a slot
RECURSIVE dispatch(_, _, _, _)
dispatch(q, active, rs, st) ==
    IF Len(q) # 0 /\ hasSlot(active)
    THEN dispatch(Tail(q), active + 1,
                  [rs EXCEPT ![Head(q)] = "running"],
                  [st EXCEPT ![Head(q)] = @ + 1])
    ELSE [queue |-> q, activeCount |-> active, renders |-> rs,
          renderStarted |-> st]

\* route.ts 170-176: every prompt is handed to the limiter
startImages(n) ==
    LET d == dispatch([i \in 1..n |-> i], 0,
                      [i \in 1..n |-> "queued"], [i \in 1..n |-> 0])
    IN  /\ queue' = d.queue
        /\ activeCount' = d.activeCount
        /\ renders' = d.renders
        /\ renderStarted' = d.renderStarted
        /\ allImages' = "pending"

\* The value a settled render call contributes to Promise.all
renderValue(art, rs, i) ==
    IF rs[i] = "ok" THEN Image(art.imagePrompts[i]) ELSE NoImage

----------------------------------------------------------------------------
\* POST, one continuation per action

Init ==
    /\ pc = "AwaitBody"
    /\ input \in Inputs
    /\ affiliateLinks = NoLinks
    /\ productData = NoProduct
    /\ content = NoContent
    /\ article = EmptyArticle
    /\ checks = [n \in SpellNames |-> NoCheck]
    /\ queue = <<>>
    /\ activeCount = 0
    /\ renders = <<>>
    /\ allImages = "idle"
    /\ generatedImages = <<>>
    /\ started = [c \in CallNames |-> 0]
    /\ renderStarted = <<>>
    /\ response = NoResponse
    /\ page = NoPage

call(name) == started' = [started EXCEPT ![name] = @ + 1]

\* A catch clause that returns what was built so far beside the error
failWithArticle(error) ==
    /\ pc' = "Failed"
    /\ response' = [status |-> 400,
                    body |-> [error |-> error, article |-> article]]

\* route.ts 221-232: an error thrown anywhere in the try block
fail(error) ==
    /\ pc' = "Failed"
    /\ response' = errorResponse(error)

\* route.ts 123-124: req.json() has settled
OnBody ==
    /\ pc = "AwaitBody"
    /\ IF input.kind = "malformed"
       THEN fail(Message("Unexpected token")) /\ UNCHANGED started
       ELSE IF ~requestSchema(input)
       THEN fail(Flattened) /\ UNCHANGED started
       ELSE /\ call("product")
            /\ pc' = "AwaitProduct"
            /\ UNCHANGED response
    /\ UNCHANGED <<page, input, affiliateLinks, productData, content, article, checks,
                   limiterVars, generatedImages>>

\* route.ts 124-129, 56-90: scrapeProductSnapshot has settled
OnProduct ==
    /\ pc = "AwaitProduct"
    /\ \/ /\ fail(Message("product fetch failed"))
          /\ UNCHANGED <<affiliateLinks, productData, started>>
       \/ \E product \in Products :
            /\ productData' = product
            /\ affiliateLinks' = buildAffiliateLinks(input.affiliateConfig,
                                                     input.productUrl)
            /\ call("draft")
            /\ pc' = "AwaitDraft"
            /\ UNCHANGED response
    /\ UNCHANGED <<page, input, content, article, checks, limiterVars,
                   generatedImages>>

\* route.ts 59-90: the chat completion has settled
OnCompletion ==
    /\ pc = "AwaitDraft"
    /\ \/ /\ fail(Message("completion failed"))
          /\ UNCHANGED content
       \/ \E c \in Contents :
            /\ content' = c
            /\ pc' = "Parsing"
            /\ UNCHANGED response
    /\ UNCHANGED <<page, input, affiliateLinks, productData, article, checks, limiterVars,
                   generatedImages, started>>

\* A parse of the content as it came, without the default of route.ts 94
ParseContentNoDefault ==
    /\ pc = "Parsing"
    /\ content' = NoContent
    /\ IF content.kind \in {"missing", "unparseable"}
       THEN /\ fail(Message("Failed to parse article response from model"))
            /\ UNCHANGED <<article, started>>
       ELSE IF content.kind = "nonobject"
       THEN /\ fail(Message("Cannot set properties of null"))
            /\ UNCHANGED <<article, started>>
       ELSE /\ article' = normalize(content.json)
            /\ call("sections")
            /\ pc' = "AwaitSections"
            /\ UNCHANGED response
    /\ UNCHANGED <<page, input, affiliateLinks, productData, checks, limiterVars,
                   generatedImages>>

\* route.ts 92-118, 131-135: the rest of assembleArticle, then POST up to
\* the first spellcheck
ParseContent ==
    /\ pc = "Parsing"
    /\ content' = NoContent
    /\ IF content.kind = "unparseable"
       THEN /\ fail(Message("Failed to parse article response from model"))
            /\ UNCHANGED <<article, started>>
       ELSE IF content.kind = "nonobject"
       THEN /\ fail(Message("Cannot set properties of null"))
            /\ UNCHANGED <<article, started>>
       ELSE /\ article' = normalize(IF content.kind = "missing"
                                    THEN defaultContent ELSE content.json)
            /\ call("sections")
            /\ pc' = "AwaitSections"
            /\ UNCHANGED response
    /\ UNCHANGED <<page, input, affiliateLinks, productData, checks, limiterVars, generatedImages>>

\* route.ts 182: runSpellcheck(article.title, ...)
startTitle ==
    /\ call("title")
    /\ pc' = "AwaitTitle"

\* POST entering the image stage whatever includeImages says
afterFaqsAnyFlag(ch) ==
    /\ checks' = ch
    /\ article' = applyCorrections(article, ch)
    /\ IF Len(article.imagePrompts) # 0
       THEN /\ startImages(Len(article.imagePrompts))
            /\ pc' = "AwaitImages"
            /\ UNCHANGED started
       ELSE /\ startTitle
            /\ UNCHANGED limiterVars
    /\ UNCHANGED <<generatedImages, response>>

\* route.ts 144-182: POST from the corrections up to its next await, which
\* is the Promise.all of the image stage or the spellcheck of the title
afterFaqs(ch) ==
    /\ checks' = ch
    /\ article' = applyCorrections(article, ch)
    /\ IF input.includeImages /\ Len(article.imagePrompts) # 0
       THEN /\ startImages(Len(article.imagePrompts))
            /\ pc' = "AwaitImages"
            /\ UNCHANGED started
       ELSE /\ startTitle
            /\ UNCHANGED limiterVars
    /\ UNCHANGED <<generatedImages, response>>

\* route.ts 131-147: spellcheckSections on the section bodies has settled
OnSections ==
    /\ pc = "AwaitSections"
    /\ \/ /\ fail(Message("spellcheck failed"))
          /\ UNCHANGED <<article, checks, limiterVars, generatedImages,
                         started>>
       \/ \E r \in SectionResults(Len(article.sections)) :
            LET ch == [checks EXCEPT !["sections"] = r]
            IN  IF Len(article.faqs) # 0
                THEN /\ checks' = ch
                     /\ call("faqs")
                     /\ pc' = "AwaitFaqs"
                     /\ UNCHANGED <<article, limiterVars, generatedImages,
                                    response>>
                ELSE afterFaqs(ch)
    /\ UNCHANGED <<page, input, affiliateLinks, productData, content>>

\* route.ts 137-182: spellcheckSections on the serialized FAQs has settled
OnFaqs ==
    /\ pc = "AwaitFaqs"
    /\ \/ /\ fail(Message("spellcheck failed"))
          /\ UNCHANGED <<article, checks, limiterVars, generatedImages,
                         started>>
       \/ \E r \in FaqResults(Len(article.faqs)) :
            afterFaqs([checks EXCEPT !["faqs"] = r])
    /\ UNCHANGED <<page, input, affiliateLinks, productData, content>>

\* A limiter that starts a rejected call once more before it goes on
nextRetrying(q, active, rs, st) ==
    LET failed == {i \in DOMAIN rs : rs[i] = "rejected" /\ st[i] < 2}
    IN  IF failed # {}
        THEN LET i == CHOOSE j \in failed : TRUE
             IN  [queue |-> q, activeCount |-> active,
                  renders |-> [rs EXCEPT ![i] = "running"],
                  renderStarted |-> [st EXCEPT ![i] = @ + 1]]
        ELSE IF Len(q) # 0
        THEN [queue |-> Tail(q), activeCount |-> active,
              renders |-> [rs EXCEPT ![Head(q)] = "running"],
              renderStarted |-> [st EXCEPT ![Head(q)] = @ + 1]]
        ELSE [queue |-> q, activeCount |-> active - 1, renders |-> rs,
              renderStarted |-> st]

\* A limiter that drops the queued calls once a call has rejected
nextCancelling(q, active, rs, st) ==
    IF \E i \in DOMAIN rs : rs[i] = "rejected"
    THEN [queue |-> <<>>, activeCount |-> active - 1, renders |-> rs,
          renderStarted |-> st]
    ELSE IF Len(q) # 0
    THEN [queue |-> Tail(q), activeCount |-> active,
          renders |-> [rs EXCEPT ![Head(q)] = "running"],
          renderStarted |-> [st EXCEPT ![Head(q)] = @ + 1]]
    ELSE [queue |-> q, activeCount |-> active - 1, renders |-> rs,
          renderStarted |-> st]

\* p-limit next(): a call has settled, its slot goes to the first queued call
next(q, active, rs, st) ==
    IF Len(q) # 0
    THEN [queue |-> Tail(q), activeCount |-> active,
          renders |-> [rs EXCEPT ![Head(q)] = "running"],
          renderStarted |-> [st EXCEPT ![Head(q)] = @ + 1]]
    ELSE [queue |-> q, activeCount |-> active - 1, renders |-> rs,
          renderStarted |-> st]

\* The image stage without its try/catch: a rejection reaches the catch
\* clause of POST
afterImagesUncaught(rs, outcome) ==
    IF outcome = "rejected"
    THEN /\ allImages' = "rejected"
         /\ UNCHANGED <<generatedImages, started>>
         /\ pc' = "Failed"
         /\ response' = [status |-> 400,
                         body |-> [error |-> [t |-> "string",
                                              v |-> "render failed"]]]
    ELSE /\ allImages' = "fulfilled"
         /\ generatedImages' =
                [j \in 1..Len(rs) |-> renderValue(article, rs, j)]
         /\ startTitle
         /\ UNCHANGED response

\* The image stage capturing each call's result: on a rejection the images
\* rendered so far are kept
afterImagesKeeping(rs, outcome) ==
    /\ allImages' = IF outcome = "rejected" THEN "rejected" ELSE "fulfilled"
    /\ generatedImages' =
           LET ok == SelectSeq([j \in 1..Len(rs) |-> j],
                               LAMBDA j : rs[j] \in {"ok", "empty"})
           IN  [k \in 1..Len(ok) |-> renderValue(article, rs, ok[k])]
    /\ startTitle
    /\ UNCHANGED response

\* An await that goes on only when every render call has fulfilled
afterImagesAwaitingAll(rs, outcome) ==
    IF outcome = "rejected"
    THEN UNCHANGED <<allImages, generatedImages, pc, started, response>>
    ELSE /\ allImages' = "fulfilled"
         /\ generatedImages' =
                [j \in 1..Len(rs) |-> renderValue(article, rs, j)]
         /\ startTitle
         /\ UNCHANGED response

\* route.ts 169-182: Promise.all has settled; on a rejection the catch clause
\* leaves generatedImages as it was
afterImages(rs, outcome) ==
    IF outcome = "rejected"
    THEN /\ allImages' = "rejected"
         /\ UNCHANGED generatedImages
         /\ startTitle
         /\ UNCHANGED response
    ELSE /\ allImages' = "fulfilled"
         /\ generatedImages' =
                [j \in 1..Len(rs) |-> renderValue(article, rs, j)]
         /\ startTitle
         /\ UNCHANGED response

\* route.ts 170-182: the render call of prompt i has settled.  Promise.all
\* rejects with the first rejection and fulfils when every call has
\* fulfilled; the calls still running or queued go on either way.
RenderSettle(i, outcome) ==
    /\ i \in DOMAIN renders
    /\ renders[i] = "running"
    /\ LET rs == [renders EXCEPT ![i] = outcome]
           d == next(queue, activeCount, rs, renderStarted)
       IN  /\ queue' = d.queue
           /\ activeCount' = d.activeCount
           /\ renders' = d.renders
           /\ renderStarted' = d.renderStarted
           /\ IF /\ allImages = "pending"
                 /\ \/ outcome = "rejected"
                    \/ \A j \in DOMAIN rs : rs[j] \in {"ok", "empty"}
              THEN afterImages(rs, outcome)
              ELSE UNCHANGED <<allImages, generatedImages, pc, started,
                               response>>
    /\ UNCHANGED <<page, input, affiliateLinks, productData, content, article, checks>>

\* route.ts 182-201: runSpellcheck on one text field has settled with r
correctText(name, field, r) ==
    /\ checks' = [checks EXCEPT ![name] = r]
    /\ article' = [article EXCEPT ![field] = Str(trim(r.corrected))]

\* route.ts 182-188
OnTitle ==
    /\ pc = "AwaitTitle"
    /\ \/ /\ fail(Message("spellcheck failed"))
          /\ UNCHANGED <<article, checks, started>>
       \/ \E r \in TextResults("title") :
            /\ correctText("title", "title", r)
            /\ call("meta")
            /\ pc' = "AwaitMeta"
            /\ UNCHANGED response
    /\ UNCHANGED <<page, input, affiliateLinks, productData, content, limiterVars, generatedImages>>

\* route.ts 185-194
OnMeta ==
    /\ pc = "AwaitMeta"
    /\ \/ /\ fail(Message("spellcheck failed"))
          /\ UNCHANGED <<article, checks, started>>
       \/ \E r \in TextResults("meta") :
            /\ correctText("meta", "metaDescription", r)
            /\ call("excerpt")
            /\ pc' = "AwaitExcerpt"
            /\ UNCHANGED response
    /\ UNCHANGED <<page, input, affiliateLinks, productData, content, limiterVars, generatedImages>>

\* route.ts 191-200
OnExcerpt ==
    /\ pc = "AwaitExcerpt"
    /\ \/ /\ fail(Message("spellcheck failed"))
          /\ UNCHANGED <<article, checks, started>>
       \/ \E r \in TextResults("excerpt") :
            /\ correctText("excerpt", "excerpt", r)
            /\ call("cta")
            /\ pc' = "AwaitCta"
            /\ UNCHANGED response
    /\ UNCHANGED <<page, input, affiliateLinks, productData, content, limiterVars, generatedImages>>

\* route.ts 197-220
OnCta ==
    /\ pc = "AwaitCta"
    /\ \/ /\ fail(Message("spellcheck failed"))
          /\ UNCHANGED <<article, checks>>
       \/ \E r \in TextResults("cta") :
            /\ correctText("cta", "callToAction", r)
            /\ pc' = "Done"
            /\ response' = responsePayload(input, productData, article',
                                           checks', generatedImages)
    /\ UNCHANGED <<page, input, affiliateLinks, productData, content, limiterVars, generatedImages,
                   started>>

Next ==
    \/ OnBody
    \/ OnProduct
    \/ OnCompletion
    \/ ParseContent
    \/ OnSections
    \/ OnFaqs
    \/ \E i \in 1..MaxPrompts + 1, outcome \in RenderOutcomes :
          RenderSettle(i, outcome)
    \/ OnTitle
    \/ OnMeta
    \/ OnExcerpt
    \/ OnCta

Spec == Init /\ [][Next]_vars

\* Every collaborator call that was started eventually settles, and the
\* continuation of a settled await eventually runs
FairSpec == Spec /\ WF_vars(Next)

----------------------------------------------------------------------------
\* buildAffiliateLinks on its own, over the configurations requestSchema
\* accepts

InitLinks ==
    /\ pc = "Links"
    /\ input \in {GenerationRequest("valid", FALSE, Undefined, config) :
                    config \in CompleteConfigs}
    /\ affiliateLinks = NoLinks
    /\ productData = NoProduct
    /\ content = NoContent
    /\ article = EmptyArticle
    /\ checks = [n \in SpellNames |-> NoCheck]
    /\ queue = <<>>
    /\ activeCount = 0
    /\ renders = <<>>
    /\ allImages = "idle"
    /\ generatedImages = <<>>
    /\ started = [c \in CallNames |-> 0]
    /\ renderStarted = <<>>
    /\ response = NoResponse
    /\ page = NoPage

BuildLinks ==
    /\ pc = "Links"
    /\ affiliateLinks' = buildAffiliateLinks(input.affiliateConfig,
                                             input.productUrl)
    /\ pc' = "LinksBuilt"
    /\ UNCHANGED <<page, input, productData, content, article, checks, limiterVars,
                   generatedImages, started, response>>

LinksSpec == InitLinks /\ [][BuildLinks]_vars

----------------------------------------------------------------------------
\* The image stages of several requests processed at the same time.  POST
\* runs once per request, so each request has its own limiter: pc and the
\* limiter variables hold one value per request.

Requests == 1..MaxRequests

\* Enough prompts for a request to fill its limiter and queue one call
PromptCounts == 1..(concurrency + 1)

\* A limiter shared by all requests counts the running calls of all
activeOfAll(counts, r) ==
    LET RECURSIVE total(_)
        total(k) == IF k = 0 THEN 0 ELSE counts[k] + total(k - 1)
    IN  total(MaxRequests)

\* route.ts 168: pLimit(2) is called inside POST, so the limiter of request
\* r counts the running calls of r alone
activeOf(counts, r) == counts[r]

InitRequests ==
    /\ pc = [r \in Requests |-> "AwaitFaqs"]
    /\ input = GenerationRequest("valid", TRUE, Undefined, SampleConfig)
    /\ affiliateLinks = NoLinks
    /\ productData = NoProduct
    /\ content = NoContent
    /\ article = EmptyArticle
    /\ checks = [n \in SpellNames |-> NoCheck]
    /\ queue = [r \in Requests |-> <<>>]
    /\ activeCount = [r \in Requests |-> 0]
    /\ renders = [r \in Requests |-> <<>>]
    /\ allImages = [r \in Requests |-> "idle"]
    /\ generatedImages = <<>>
    /\ started = [c \in CallNames |-> 0]
    /\ renderStarted = [r \in Requests |-> <<>>]
    /\ response = NoResponse
    /\ page = NoPage

\* route.ts 167-176: request r, whose draft holds n image prompts, enters
\* the image stage
EnterImages(r, n) ==
    /\ pc[r] = "AwaitFaqs"
    /\ LET d == dispatch([i \in 1..n |-> i], activeOf(activeCount, r),
                         [i \in 1..n |-> "queued"], [i \in 1..n |-> 0])
       IN  /\ queue' = [queue EXCEPT ![r] = d.queue]
           /\ activeCount' = [activeCount EXCEPT ![r] = d.activeCount]
           /\ renders' = [renders EXCEPT ![r] = d.renders]
           /\ renderStarted' = [renderStarted EXCEPT ![r] = d.renderStarted]
    /\ allImages' = [allImages EXCEPT ![r] = "pending"]
    /\ pc' = [pc EXCEPT ![r] = "AwaitImages"]
    /\ UNCHANGED <<page, input, affiliateLinks, productData, content, article,
                   checks, generatedImages, started, response>>

\* route.ts 170-182: the render call of prompt i of request r has settled
SettleOf(r, i, outcome) ==
    /\ i \in DOMAIN renders[r]
    /\ renders[r][i] = "running"
    /\ LET rs == [renders[r] EXCEPT ![i] = outcome]
           d == next(queue[r], activeOf(activeCount, r), rs, renderStarted[r])
           settles == /\ allImages[r] = "pending"
                      /\ \/ outcome = "rejected"
                         \/ \A j \in DOMAIN rs : rs[j] \in {"ok", "empty"}
       IN  /\ queue' = [queue EXCEPT ![r] = d.queue]
           /\ activeCount' = [activeCount EXCEPT ![r] = d.activeCount]
           /\ renders' = [renders EXCEPT ![r] = d.renders]
           /\ renderStarted' = [renderStarted EXCEPT ![r] = d.renderStarted]
           /\ allImages' =
                 IF settles
                 THEN [allImages EXCEPT ![r] =
                         IF outcome = "rejected" THEN "rejected"
                         ELSE "fulfilled"]
                 ELSE allImages
           /\ pc' = IF settles THEN [pc EXCEPT ![r] = "AwaitTitle"] ELSE pc
    /\ UNCHANGED <<page, input, affiliateLinks, productData, content, article,
                   checks, generatedImages, started, response>>

NextRequests ==
    \/ \E r \in Requests, n \in PromptCounts : EnterImages(r, n)
    \/ \E r \in Requests, i \in PromptCounts, outcome \in {"ok", "rejected"} :
          SettleOf(r, i, outcome)

RequestsSpec == InitRequests /\ [][NextRequests]_vars

----------------------------------------------------------------------------
\* handleSubmit of the page (part_000 64-105), one continuation per action.
\* The state updates of one continuation are rendered together.

\* What fetch("/api/generate") resolves to: the success response of POST, an
\* error response of POST with a message or with flattened validation
\* errors, or an error page that is not JSON
ApiResponses ==
    {[ok |-> TRUE, parses |-> TRUE, error |-> Undefined, data |-> d] :
        d \in {"article", "article and images"}}
    \cup {[ok |-> FALSE, parses |-> TRUE, error |-> e, data |-> ""] :
            e \in {[t |-> "string", v |-> "product fetch failed"],
                   [t |-> "string", v |-> "completion failed"],
                   [t |-> "object", v |-> "formErrors, fieldErrors"]}}
    \cup {[ok |-> FALSE, parses |-> FALSE, error |-> Undefined, data |-> ""]}

\* A handler that leaves the last error and result on the page
submitStateKeeping(pg) == [pg EXCEPT !.loading = TRUE]

\* part_000 66-68
submitState(pg) ==
    [pg EXCEPT !.loading = TRUE, !.error = Null, !.result = Null]

\* part_000 89-93
errorText(error) ==
    IF error.t = "string" THEN error.v
    ELSE "Generation failed. Please review your inputs."

\* part_000 99-103: catch, then finally
caught(pg, message) ==
    [pg EXCEPT !.error = [t |-> "string", v |-> message],
               !.loading = FALSE, !.at = "idle", !.fetched = NoFetch]

InitForm ==
    /\ pc = "Page"
    /\ input = GenerationRequest("valid", TRUE, Str("notes"), SampleConfig)
    /\ affiliateLinks = NoLinks
    /\ productData = NoProduct
    /\ content = NoContent
    /\ article = EmptyArticle
    /\ checks = [n \in SpellNames |-> NoCheck]
    /\ queue = <<>>
    /\ activeCount = 0
    /\ renders = <<>>
    /\ allImages = "idle"
    /\ generatedImages = <<>>
    /\ started = [c \in CallNames |-> 0]
    /\ renderStarted = <<>>
    /\ response = NoResponse
    /\ page = NoPage

\* part_000 64-69, 352-354: the form is submitted, which the disabled button
\* prevents while loading
Submit ==
    /\ ~page.loading
    /\ page.submissions < MaxSubmissions
    /\ page' = [submitState(page) EXCEPT !.at = "AwaitFetch",
                                         !.submissions = @ + 1]
    /\ UNCHANGED requestVars

\* part_000 69-87: fetch has settled
OnFetch ==
    /\ page.at = "AwaitFetch"
    /\ \/ page' = caught(page, "Failed to fetch")
       \/ \E r \in ApiResponses :
            page' = [page EXCEPT !.fetched = r,
                                 !.at = IF r.ok THEN "AwaitJson"
                                        ELSE "AwaitErrorJson"]
    /\ UNCHANGED requestVars

\* part_000 88-94: response.json() of a response that is not OK has settled
OnErrorJson ==
    /\ page.at = "AwaitErrorJson"
    /\ page' = IF page.fetched.parses
               THEN caught(page, errorText(page.fetched.error))
               ELSE caught(page, "Unexpected token <")
    /\ UNCHANGED requestVars

\* part_000 96-97, 101-103: response.json() of an OK response has settled
OnJson ==
    /\ page.at = "AwaitJson"
    /\ page' = [page EXCEPT !.result = [t |-> "object", v |-> page.fetched.data],
                            !.loading = FALSE, !.at = "idle",
                            !.fetched = NoFetch]
    /\ UNCHANGED requestVars

NextForm ==
    \/ Submit
    \/ OnFetch
    \/ OnErrorJson
    \/ OnJson

FormSpec == InitForm /\ [][NextForm]_vars

----------------------------------------------------------------------------
\* Properties

\* Render calls started and not yet settled
InFlight == Cardinality({i \in DOMAIN renders : renders[i] = "running"})

\* Some render call of the request has been started
RenderBegun == \E i \in DOMAIN renderStarted : renderStarted[i] > 0

\* The response is a success response with an image list field
HasImageList == "nanoBananaImages" \in DOMAIN response.body

Rejected == {i \in DOMAIN renders : renders[i] = "rejected"}
Rendered == {i \in DOMAIN renders : renders[i] = "ok"}

\* The await of each collaborator call
AwaitOf(name) ==
    CASE name = "product" -> "AwaitProduct"
      [] name = "draft" -> "AwaitDraft"
      [] name = "sections" -> "AwaitSections"
      [] name = "faqs" -> "AwaitFaqs"
      [] name = "title" -> "AwaitTitle"
      [] name = "meta" -> "AwaitMeta"
      [] name = "excerpt" -> "AwaitExcerpt"
      [] name = "cta" -> "AwaitCta"

\* The call has been started and has settled
Completed(name) == started[name] > 0 /\ pc # AwaitOf(name)

\* The errors of the fatal stages
FatalErrors ==
    {Flattened} \cup {Message(m) : m \in
        {"Unexpected token", "product fetch failed", "completion failed",
         "Failed to parse article response from model",
         "Cannot set properties of null", "spellcheck failed"}}

\* C1: during the image stage, for any number of prompts and any
\* interleaving of completions and failures, at most 2 render calls are
\* started and not yet settled.
C1_AtMostTwoInFlight == InFlight <= 2

C1_Witness ==
    /\ InFlight = 2
    /\ Len(renders) > 3
    /\ Rejected # {}
    /\ Rendered # {}

\* C2: a render call that fails never moves the request to Failed, and a
\* request fails only with the error of a fatal stage: when validation,
\* collection, drafting and the spellchecks succeed it ends with a success
\* response, whichever render calls fail.
C2_RenderFailureNotFatal ==
    /\ [][(\E i \in DOMAIN renders :
              renders[i] = "running" /\ renders'[i] = "rejected")
          => /\ pc' = "Failed" => pc = "Failed"
             /\ response' = response]_vars
    /\ [](pc = "Failed" => response.body.error \in FatalErrors)

C2_Witness ==
    /\ pc = "Done"
    /\ response.status = 200
    /\ Rejected # {}

\* C3: if exactly one of N >= 2 render calls fails and the other N-1
\* succeed, the image list of the final response holds the N-1 rendered
\* images.
C3_PartialFailureKeepsOthers ==
    (/\ pc = "Done"
     /\ input.includeImages
     /\ Len(renders) >= 2
     /\ Cardinality(Rejected) = 1
     /\ Cardinality(Rendered) = Len(renders) - 1)
    => /\ HasImageList
       /\ Len(response.body.nanoBananaImages) = Len(renders) - 1
       /\ \A i \in Rendered :
            \E k \in DOMAIN response.body.nanoBananaImages :
                response.body.nanoBananaImages[k]
                    = Image(article.imagePrompts[i])

\* C4: if at least one render call of a request fails, its success response
\* has no image list field, also when other render calls succeeded.
C4_AnyFailureNoImageList ==
    (pc = "Done" /\ Rejected # {}) => ~HasImageList

C4_Witness ==
    /\ pc = "Done"
    /\ Rejected # {}
    /\ Rendered # {}

\* C5: with include-images false the success response never has an image
\* list field, whatever image prompts the draft holds.
C5_NoImageListWhenNotIncluded ==
    (response.status = 200 /\ ~input.includeImages) => ~HasImageList

C5_Witness ==
    /\ pc = "Done"
    /\ ~input.includeImages
    /\ Len(article.imagePrompts) > 1

\* C6: after the failure of a fatal stage the response is the error object
\* alone (one error value, no article, product, adjustments, highlights or
\* images), and a success response exists only for a request that is Done.
C6_FailureIsErrorOnly ==
    /\ pc = "Failed" =>
          /\ response.status = 400
          /\ DOMAIN response.body = {"error"}
          /\ response.body.error \in FatalErrors
    /\ response.status = 200 => pc = "Done"

C6_Witness ==
    /\ pc = "Failed"
    /\ started["cta"] = 1
    /\ Len(article.sections) > 0

\* C7: after the first fatal failure of a request no further call to a
\* collaborator (product fetch, draft, spellcheck, image render) is started.
C7_NoCallAfterFailure ==
    [][pc = "Failed" =>
          started' = started /\ renderStarted' = renderStarted]_vars

\* C8: the stages run in the order Validating, CollectingProduct, Drafting,
\* Spellchecking, Rendering, Assembling, Done: no render call is issued
\* before every spellcheck invocation of the request has completed, and
\* Failed is never entered once Rendering has begun.
C8_SpellcheckBeforeRendering ==
    /\ RenderBegun =>
          /\ \A name \in SpellNames \ {"faqs"} : Completed(name)
          /\ Len(article.faqs) # 0 => Completed("faqs")
    /\ pc = "Failed" => ~RenderBegun

\* C9: after a successful parse every expected field that is absent or of
\* the wrong shape is coerced to its empty default before spellcheck: the
\* text fields to the empty string, the list fields to the empty sequence.
C9_Normalized ==
    [][(pc = "Parsing" /\ pc' = "AwaitSections") =>
          LET parsed == IF content.kind = "missing"
                        THEN defaultContent ELSE content.json
          IN  /\ \A f \in TextFields :
                    article'[f] = IF parsed[f].t = "string"
                                  THEN parsed[f] ELSE Str(<<>>)
              /\ \A f \in ListFields :
                    article'[f] = IF parsed[f].t = "array"
                                  THEN parsed[f].v ELSE <<>>]_vars

\* The corrections of route.ts 144-156 have been applied to the article
FaqsCorrected == allImages # "idle" \/ started["title"] > 0

HasNewline(s) == \E k \in 1..Len(s) : s[k] = NL

FirstNewline(s) ==
    CHOOSE k \in 1..Len(s) : s[k] = NL /\ \A j \in 1..(k - 1) : s[j] # NL

BeforeNewline(s) == SubSeq(s, 1, FirstNewline(s) - 1)
AfterNewline(s) == SubSeq(s, FirstNewline(s) + 1, Len(s))

\* The corrected string of FAQ i, where the collaborator returned one
CorrectedFaqs ==
    {i \in 1..Len(article.faqs) : i <= Len(checks["faqs"].corrected)}

RoundTrips(i) ==
    LET s == checks["faqs"].corrected[i]
    IN  /\ article.faqs[i].heading = BeforeNewline(s)
        /\ article.faqs[i].body = AfterNewline(s)
        /\ article.faqs[i].heading \o <<NL>> \o article.faqs[i].body = s

C11_NoSeparatorKeepsHeading ==
    pc = "Done" =>
        \A i \in CorrectedFaqs :
            LET s == checks["faqs"].corrected[i]
            IN  ~HasNewline(s) =>
                    /\ response.body.article.faqs[i].heading
                          = SampleFaq(i).heading
                    /\ response.body.article.faqs[i].body = s

\* The spellcheck invocations in the order of their adjustments
AdjustmentOrder == <<"sections", "faqs", "title", "meta", "excerpt", "cta">>

\* The number of adjustments of the first k invocations
RECURSIVE AdjustmentsBefore(_)
AdjustmentsBefore(k) ==
    IF k = 0 THEN 0
    ELSE AdjustmentsBefore(k - 1)
            + Len(checks[AdjustmentOrder[k]].adjustments)

\* C12: spellingAdjustments of a success response is the concatenation of
\* the adjustments of the invocations for section bodies, FAQs, title, meta
\* description, excerpt and call to action, in this order, each
\* invocation's adjustments in the order returned.
C12_AdjustmentsInFixedOrder ==
    pc = "Done" =>
        LET adj == response.body.spellingAdjustments
        IN  /\ Len(adj) = AdjustmentsBefore(Len(AdjustmentOrder))
            /\ \A k \in DOMAIN AdjustmentOrder :
                 LET own == checks[AdjustmentOrder[k]].adjustments
                 IN  \A j \in DOMAIN own :
                        adj[AdjustmentsBefore(k - 1) + j] = own[j]

C12_Witness ==
    /\ pc = "Done"
    /\ \A name \in SpellNames : Len(checks[name].adjustments) > 0
    /\ Len(checks["sections"].adjustments) > 1

RECURSIVE KeywordsJoined(_)
KeywordsJoined(k) ==
    IF k = 0 THEN ""
    ELSE IF k = 1 THEN input.seoKeywords[1]
    ELSE KeywordsJoined(k - 1) \o ", " \o input.seoKeywords[k]

NotesSupplied ==
    input.additionalNotes.t = "string" /\ input.additionalNotes.v # ""

\* C14: geoHighlights of a success response has as first entry the region
\* entry, as second entry "Keywords: " followed by all keywords joined by
\* ", " in input order, and a third entry, the notes, exactly when non-empty
\* notes were supplied: its length is 2 or 3.
C14_GeoHighlights ==
    pc = "Done" =>
        LET geo == response.body.geoHighlights
        IN  /\ Len(geo) \in {2, 3}
            /\ geo[1] = "Optimized for " \o input.targetRegion \o " audience"
            /\ geo[2] = "Keywords: "
                           \o KeywordsJoined(Len(input.seoKeywords))
            /\ Len(geo) = 3 <=> NotesSupplied
            /\ Len(geo) = 3 => geo[3] = input.additionalNotes.v

C14_Witness ==
    /\ pc = "Done"
    /\ NotesSupplied
    /\ response.body.geoHighlights
          = <<"Optimized for Brazil audience",
              "Keywords: melhor preco, review completo", "notes">>

\* C15: an image list in a success response is never empty and every entry
\* of it is the GeneratedImage (image URL and prompt) of a render call that
\* succeeded for a prompt of the draft, never a missing entry, also when a
\* render call settles with an empty result.
C15_ImageListOfRenderedImages ==
    (pc = "Done" /\ HasImageList) =>
        LET images == response.body.nanoBananaImages
        IN  /\ Len(images) > 0
            /\ \A k \in DOMAIN images :
                 /\ images[k].defined
                 /\ \E i \in Rendered :
                      images[k] = Image(article.imagePrompts[i])

\* C16: if include-images is false or the normalized draft has no image
\* prompts, the image stage is skipped: no render call is ever issued for
\* the request and no Promise.all over render calls is ever awaited.
C16_ImageStageSkipped ==
    (~input.includeImages \/ Len(article.imagePrompts) = 0) =>
        /\ ~RenderBegun
        /\ renders = <<>>
        /\ allImages = "idle"
        /\ pc # "AwaitImages"

C16_Witness ==
    /\ pc \in {"Done", "Failed"}
    /\ started["cta"] = 1
    /\ ~input.includeImages
    /\ Len(article.imagePrompts) > 2

\* The platforms configured with a base URL and a tag
CompletePlatforms ==
    {p \in DOMAIN input.affiliateConfig :
        LET config == input.affiliateConfig[p]
        IN  config.t = "object" /\ isUrl(config.baseUrl) /\ config.tag # ""}

\* The request is well-formed but for affiliate entries lacking a field
HasPartialEntry ==
    /\ input.kind = "valid"
    /\ CompletePlatforms # DOMAIN input.affiliateConfig

\* C17: an affiliate entry that lacks a base URL or a tag is skipped
\* silently: the request passes validation and goes on to the product
\* fetch, and the link map sent to the drafter has a link for each complete
\* entry and no key for the entry lacking a field.
C17_PartialEntrySkipped ==
    HasPartialEntry =>
        /\ pc # "AwaitBody" => started["product"] = 1
        /\ pc = "Failed" => response.body.error # Flattened
        /\ started["draft"] > 0 =>
                DOMAIN affiliateLinks = CompletePlatforms

ParamsNamed(query, name) == {k \in DOMAIN query : query[k].name = name}

\* The pairs of a query other than the two buildAffiliateLinks sets
OtherParams(query) ==
    LET other(param) == param.name \notin {"ref", "target"}
    IN  SelectSeq(query, other)

LinksBuilt == pc = "LinksBuilt" \/ started["draft"] > 0

\* C18: the link map has one entry for every platform configured with a
\* base URL and a tag and none for another platform; the URL of the entry
\* is the base URL with the parameter "ref" set to the tag and the parameter
\* "target" set to the product URL, each occurring once whatever the base
\* URL held under that name, and the other parameters as they were.
C18_LinkPerConfiguredPlatform ==
    LinksBuilt =>
        /\ DOMAIN affiliateLinks = CompletePlatforms
        /\ \A p \in DOMAIN affiliateLinks :
             LET link == affiliateLinks[p]
                 config == input.affiliateConfig[p]
                 refs == ParamsNamed(link.query, "ref")
                 targets == ParamsNamed(link.query, "target")
             IN  /\ link.href = config.baseUrl.href
                 /\ Cardinality(refs) = 1
                 /\ \A k \in refs : link.query[k].value = config.tag
                 /\ Cardinality(targets) = 1
                 /\ \A k \in targets :
                      link.query[k].value = input.productUrl
                 /\ OtherParams(link.query)
                      = OtherParams(config.baseUrl.query)

C18_Witness ==
    /\ pc = "LinksBuilt"
    /\ DOMAIN affiliateLinks = {"shopee"}
    /\ LET base == input.affiliateConfig["shopee"].baseUrl.query
       IN  /\ Cardinality(ParamsNamed(base, "ref")) > 1
           /\ affiliateLinks["shopee"].query
                = <<Param("ref", "tag123"),
                    Param("target", "https://example.com/p")>>

\* C20: no stage retries: within one request the product fetch, the chat
\* completion and each spellcheck invocation are started at most once and
\* at most one render call is started per image prompt, whether calls
\* succeed or fail.
C20_NoRetry ==
    /\ \A c \in CallNames : started[c] <= 1
    /\ DOMAIN renderStarted \subseteq DOMAIN article.imagePrompts
    /\ \A i \in DOMAIN renderStarted : renderStarted[i] <= 1

C20_Witness ==
    /\ pc = "Failed"
    /\ \A c \in CallNames \ {"faqs"} : started[c] = 1
    /\ Len(renders) > 2
    /\ Rejected # {}
    /\ \A i \in DOMAIN renderStarted : renderStarted[i] = 1

\* The body is JSON that the schema does not accept
FailsValidation == input.kind = "invalid" \/ HasPartialEntry

\* C21: a request whose input fails schema validation is rejected before
\* the first stage: no product fetch, chat completion, spellcheck or render
\* call is ever started for it, and its response is the error object with
\* the structured validation errors.
C21_RejectedBeforeFirstStage ==
    FailsValidation =>
        /\ \A c \in CallNames : started[c] = 0
        /\ ~RenderBegun
        /\ pc \in {"AwaitBody", "Failed"}
        /\ pc = "Failed" => response = errorResponse(Flattened)

C21_Witness ==
    /\ pc = "Failed"
    /\ HasPartialEntry
    /\ response.status = 400
    /\ response.body.error = Flattened

\* The product fetch, chat completion and spellcheck calls in flight
CallsInFlight == {c \in CallNames : started[c] > 0 /\ pc = AwaitOf(c)}

\* C22: apart from the render calls among themselves the external calls of
\* a request never overlap: at most one of the product fetch, the chat
\* completion and the spellcheck calls is in flight, and no spellcheck call
\* is in flight while a render call is, also after a render call failed.
C22_CallsNeverOverlap ==
    /\ Cardinality(CallsInFlight) <= 1
    /\ CallsInFlight # {} => InFlight = 0

Terminal == pc \in {"Done", "Failed"}

\* C23: provided every started collaborator call eventually settles, every
\* request eventually reaches a terminal state, Done with a success
\* response or Failed with an error response; the response is returned on
\* entering the terminal state and not before, and afterwards POST takes no
\* step: the state stays terminal and the response stays as returned.
C23_ExactlyOneResponse ==
    /\ <>Terminal
    /\ [](Terminal <=> response # NoResponse)
    /\ [](pc = "Done" => response.status = 200)
    /\ [](pc = "Failed" => response.status = 400)
    /\ [][Terminal => pc' = pc /\ response' = response]_vars

C23_Witness ==
    /\ pc = "Done"
    /\ response.status = 200
    /\ Rejected # {}
    /\ InFlight > 0

Drafted == pc \notin {"AwaitBody", "AwaitProduct", "AwaitDraft", "Parsing"}

\* C24: once the draft is normalized no step changes its affiliate blocks,
\* slug or image prompts, nor the collected product snapshot, and the
\* success response holds exactly these: the affiliate blocks as drafted
\* and the snapshot as product.
C24_DraftPartsForwarded ==
    /\ [][Drafted =>
            /\ article'.affiliateBlocks = article.affiliateBlocks
            /\ article'.slug = article.slug
            /\ article'.imagePrompts = article.imagePrompts
            /\ productData' = productData]_vars
    /\ [](pc = "Done" =>
            /\ response.body.article.affiliateBlocks = article.affiliateBlocks
            /\ response.body.article.slug = article.slug
            /\ response.body.article.imagePrompts = article.imagePrompts
            /\ response.body.product = productData
            /\ productData \in Products)

C24_Witness ==
    /\ pc = "Done"
    /\ Rendered # {}
    /\ response.body.article.affiliateBlocks = <<SampleBlock(1)>>
    /\ SampleBlock(1).platform \in DOMAIN affiliateLinks
    /\ response.body.article.slug = SampleText("slug")

ImageStageStarted == allImages # "idle"

EveryPromptIssued ==
    /\ Len(renderStarted) = Len(article.imagePrompts)
    /\ \A i \in DOMAIN renderStarted : renderStarted[i] > 0

\* C25: once the image stage has started, a render call is eventually
\* issued for every image prompt of the draft, also after a render call of
\* the request has failed: the queued prompts are not cancelled, so render
\* calls are still started after the stage was abandoned and after the
\* response was returned.
C25_EveryPromptEventuallyIssued ==
    /\ [](ImageStageStarted =>
            DOMAIN renders = DOMAIN article.imagePrompts)
    /\ ImageStageStarted ~> EveryPromptIssued
    /\ [][\A i \in DOMAIN renders :
            renders[i] = "queued" => renders'[i] \in {"queued", "running"}]_vars

C25_Witness ==
    /\ Terminal
    /\ allImages = "rejected"
    /\ Len(queue) > 0
    /\ InFlight > 0

\* The completion has settled without message content
ContentMissing == pc = "Parsing" /\ content.kind = "missing"

AllEmptyArticle ==
    [title |-> Str(<<>>), slug |-> Str(<<>>), metaDescription |-> Str(<<>>),
     excerpt |-> Str(<<>>), callToAction |-> Str(<<>>), sections |-> <<>>,
     faqs |-> <<>>, affiliateBlocks |-> <<>>, imagePrompts |-> <<>>]

\* C26: when the completion holds no message content drafting does not
\* fail: the draft is the all-empty article, the request goes on to the
\* spellcheck of the sections, and no render call is ever issued for it.
C26_NoContentGivesEmptyDraft ==
    /\ [][ContentMissing =>
            /\ pc' = "AwaitSections"
            /\ article' = AllEmptyArticle
            /\ started'["sections"] = 1]_vars
    /\ [](ContentMissing => [](~RenderBegun /\ allImages = "idle"))

C26_Witness ==
    /\ pc = "Done"
    /\ input.includeImages
    /\ response.body.article.slug = Str(<<>>)
    /\ response.body.article.sections = <<>>
    /\ response.body.article.faqs = <<>>
    /\ response.body.article.imagePrompts = <<>>
    /\ response.body.article.affiliateBlocks = <<>>

\* Render calls of request r started and not yet settled
InFlightOf(r) ==
    Cardinality({i \in DOMAIN renders[r] : renders[r][i] = "running"})

WaitingOf(r) == {i \in DOMAIN renders[r] : renders[r][i] = "queued"}

\* C27: the cap of 2 render calls in flight holds for each request on its
\* own limiter: a render call of a request waits only while 2 calls of that
\* same request are in flight, whatever the other requests have in flight,
\* so that R requests together can have 2*R render calls in flight.
C27_CapPerRequest ==
    \A r \in Requests :
        /\ InFlightOf(r) <= 2
        /\ activeCount[r] = InFlightOf(r)
        /\ WaitingOf(r) # {} => InFlightOf(r) = 2

C27_Witness ==
    \A r \in Requests :
        /\ InFlightOf(r) = 2
        /\ WaitingOf(r) # {}
        /\ allImages[r] = "pending"

Submitting == page.at # "idle"

====
